---- MODULE Spec2Model ----
(***************************************************************************)
(* A model of PanelColorChanger (src/src/dock_color_changer.py): the panel *)
(* colour transition engine of the MATE dock applet.                       *)
(*                                                                         *)
(* Python strings are sequences of one-character strings, so that the      *)
(* parsing and formatting of colour strings and of wallpaper paths is      *)
(* computed the way the code computes it.                                  *)
(***************************************************************************)
EXTENDS Integers, Sequences, FiniteSets, TLC

\* ------------------------------------------------------------------------
\* Python string primitives
\* ------------------------------------------------------------------------

\* F(v), with v evaluated once
Let(v, F(_)) == CHOOSE r \in { F(x) : x \in { v } } : TRUE

Min(a, b) == IF a <= b THEN a ELSE b

\* s[i:j] (0-based, end exclusive, both clipped to the string)
Slice(s, i, j) ==
    LET lo == Min(i, Len(s))
        hi == Min(j, Len(s))
    IN  IF hi <= lo THEN << >> ELSE SubSeq(s, lo + 1, hi)

\* s.startswith(pre)
StartsWith(s, pre) == Len(s) >= Len(pre) /\ SubSeq(s, 1, Len(pre)) = pre

\* s.strip(chars): drop leading and trailing characters that are in chars
Strip(s, chars) ==
    LET keep == { i \in 1..Len(s) : s[i] \notin chars }
    IN  IF keep = { } THEN << >>
        ELSE SubSeq(s, CHOOSE i \in keep : \A j \in keep : i <= j,
                       CHOOSE i \in keep : \A j \in keep : j <= i)

\* the index of the k-th separator of s, counting the start of s as the
\* separator number 0 and its end as the last one
SepIndex(s, sep, k) ==
    LET seps == { i \in 1..Len(s) : s[i] = sep } \cup { 0, Len(s) + 1 }
    IN  CHOOSE i \in seps : Cardinality({ j \in seps : j < i }) = k

\* the first k fields of s.split(sep)
RECURSIVE Fields(_, _, _)
Fields(s, sep, k) ==
    IF k = 0 THEN << >>
    ELSE Append(Fields(s, sep, k - 1),
                SubSeq(s, SepIndex(s, sep, k - 1) + 1, SepIndex(s, sep, k) - 1))

\* s.split(sep) for a one-character separator
Split(s, sep) ==
    Fields(s, sep, Cardinality({ i \in 1..Len(s) : s[i] = sep }) + 1)

LowerChars == << "a", "b", "c", "d", "e", "f", "g", "h", "i", "j", "k", "l", "m",
                 "n", "o", "p", "q", "r", "s", "t", "u", "v", "w", "x", "y", "z" >>
UpperChars == << "A", "B", "C", "D", "E", "F", "G", "H", "I", "J", "K", "L", "M",
                 "N", "O", "P", "Q", "R", "S", "T", "U", "V", "W", "X", "Y", "Z" >>

UpperChar(c) ==
    IF \E i \in 1..26 : LowerChars[i] = c
    THEN UpperChars[CHOOSE i \in 1..26 : LowerChars[i] = c]
    ELSE c

\* s.upper()
Upper(s) == [i \in 1..Len(s) |-> UpperChar(s[i])]

Whitespace == { " " }
HexDigits == << "0", "1", "2", "3", "4", "5", "6", "7", "8", "9",
                "a", "b", "c", "d", "e", "f" >>
HexUpper  == << "0", "1", "2", "3", "4", "5", "6", "7", "8", "9",
                "A", "B", "C", "D", "E", "F" >>

\* the digits of a base, up to 16
Digits(base) ==
    { HexDigits[i] : i \in 1..base } \cup { HexUpper[i] : i \in 1..base }

IsDigit(c, base) == c \in Digits(base)

DigitValues ==
    [c \in Digits(16) |-> (CHOOSE i \in 1..16 : HexDigits[i] = c \/ HexUpper[i] = c) - 1]

DigitVal(c) == DigitValues[c]

\* the value of the first k digits of s
RECURSIVE DigitsVal(_, _, _)
DigitsVal(s, base, k) ==
    IF k = 0 THEN 0
    ELSE DigitsVal(s, base, k - 1) * base + DigitVal(s[k])

AllDigits(s, base) == s # << >> /\ \A i \in 1..Len(s) : IsDigit(s[i], base)

\* the value raised by a failed conversion
ValueError == [ok |-> FALSE, v |-> 0]
Value(n) == [ok |-> TRUE, v |-> n]

\* int(s, base) for base 10 and base 16: surrounding whitespace is ignored,
\* one sign is allowed, base 16 allows a 0x prefix; anything else raises
\* ValueError
PyInt(s, base) ==
    Let(Strip(s, Whitespace), LAMBDA t :
        LET neg == t # << >> /\ Head(t) = "-"
            u == IF t # << >> /\ Head(t) \in { "+", "-" } THEN Tail(t) ELSE t
            w == IF base = 16 /\ Len(u) >= 2 /\ u[1] = "0" /\ u[2] \in { "x", "X" }
                 THEN SubSeq(u, 3, Len(u)) ELSE u
        IN  IF AllDigits(w, base)
            THEN Value(IF neg THEN 0 - DigitsVal(w, base, Len(w))
                       ELSE DigitsVal(w, base, Len(w)))
            ELSE ValueError)

RECURSIVE Pow10(_)
Pow10(n) == IF n = 0 THEN 1 ELSE 10 * Pow10(n - 1)

\* the number of decimals "%0.6f" prints
FloatDecimals == 6

\* float(s): a float is held as a whole number of millionths, which is exact
\* for the inputs of this model (at most six decimals); surrounding
\* whitespace is ignored, one sign is allowed, either side of the point may
\* be empty but not both
PyFloat(s) ==
    Let(Strip(s, Whitespace), LAMBDA t :
        LET neg == t # << >> /\ Head(t) = "-"
            u == IF t # << >> /\ Head(t) \in { "+", "-" } THEN Tail(t) ELSE t
        IN  Let(Split(u, "."), LAMBDA parts :
                LET ip == parts[1]
                    fp == IF Len(parts) = 2 THEN parts[2] ELSE << >>
                    okp(x) == \A i \in 1..Len(x) : IsDigit(x[i], 10)
                    iv == DigitsVal(ip, 10, Len(ip))
                    fv == DigitsVal(fp, 10, Len(fp)) * Pow10(FloatDecimals - Len(fp))
                    m == iv * Pow10(FloatDecimals) + fv
                IN  IF /\ Len(parts) <= 2
                       /\ okp(ip) /\ okp(fp)
                       /\ Len(ip) + Len(fp) > 0
                       /\ Len(fp) <= FloatDecimals
                    THEN Value(IF neg THEN 0 - m ELSE m)
                    ELSE ValueError))

RECURSIVE FmtNat(_, _)
FmtNat(n, base) ==
    IF n < base THEN << HexDigits[n + 1] >>
    ELSE Append(FmtNat(n \div base, base), HexDigits[(n % base) + 1])

\* "%d" % n
FmtD(n) == IF n < 0 THEN << "-" >> \o FmtNat(0 - n, 10) ELSE FmtNat(n, 10)

RECURSIVE ZeroPad(_, _)
ZeroPad(s, width) == IF Len(s) >= width THEN s ELSE ZeroPad(<< "0" >> \o s, width)

\* "%x" % n : no padding
FmtX2Unpadded(n) == FmtNat(n, 16)

\* "%.2x" % n : lower-case hexadecimal, at least two digits
FmtX2(n) ==
    IF n < 0 THEN << "-" >> \o ZeroPad(FmtNat(0 - n, 16), 2)
    ELSE ZeroPad(FmtNat(n, 16), 2)

\* "%0.6f" % po for a float held in millionths
FmtF6(m) ==
    LET a == IF m < 0 THEN 0 - m ELSE m
        body == FmtNat(a \div Pow10(FloatDecimals), 10) \o << "." >>
                \o ZeroPad(FmtNat(a % Pow10(FloatDecimals), 10), FloatDecimals)
    IN  IF m < 0 THEN << "-" >> \o body ELSE body

\* the last index of c in s, 0 when absent
LastIndex(s, c) ==
    IF \E i \in 1..Len(s) : s[i] = c
    THEN CHOOSE i \in 1..Len(s) : s[i] = c /\ \A j \in (i + 1)..Len(s) : s[j] # c
    ELSE 0

\* os.path.splitext(p)[1]: the text from the last dot of the last path
\* component on, unless only dots precede it in that component
SplitExt(p) ==
    LET sepIndex == LastIndex(p, "/")
        dotIndex == LastIndex(p, ".")
    IN  IF dotIndex > sepIndex
           /\ \E i \in (sepIndex + 1)..(dotIndex - 1) : p[i] # "."
        THEN SubSeq(p, dotIndex, Len(p))
        ELSE << >>


\* ------------------------------------------------------------------------
\* Program constants and bounds
\* ------------------------------------------------------------------------

\* for loop in range(1, 25)
NumLoops == 24
\* rs /= 25
StepDiv == 25
\* & 0xff
ByteMod == 256

\* main-thread calls and settings notifications in one run
MaxCalls == 2
\* worker threads started in one run
MaxWorkers == 2

Threads == 1..MaxWorkers

\* ------------------------------------------------------------------------
\* The inputs: wallpapers, panels and stored colour strings
\* ------------------------------------------------------------------------

PictureFilename == "picture-filename"
PictureOptions == "picture-options"
BgKeys == { PictureFilename, PictureOptions }

NoPath == << >>
ImgA == << "a", ".", "p", "n", "g" >>
ImgB == << "b", ".", "J", "P", "G" >>
ImgGone == << "g", "o", "n", "e", ".", "p", "n", "g" >>
XmlLower == << "s", ".", "x", "m", "l" >>
XmlUpper == << "S", ".", "X", "M", "L" >>
XmlMixed == << "s", ".", "X", "m", "l" >>
Zoom == << "z", "o", "o", "m" >>

Wallpapers == { NoPath, ImgA, ImgB, ImgGone, XmlLower, XmlUpper, XmlMixed }

\* ".XML"
DotXML == << ".", "X", "M", "L" >>

Panels == { "p1", "p2", "p3" }
\* the value None of Python, which equals no string
None == "None"

HexBlack == << "#", "0", "0", "0", "0", "0", "0" >>
HexCaps == << "#", "F", "F", "A", "A", "1", "0" >>
RgbWhite == << "r", "g", "b", "(", "2", "5", "5", ",", "2", "5", "5", ",", "2", "5", "5", ")" >>
RgbSpaced == << "r", "g", "b", "(", "5", ",", " ", "0", " ", ",", "7", ")" >>
RgbaHalf == << "r", "g", "b", "a", "(", "1", "0", ",", "2", "0", ",", "3", "0", ",", "0", ".", "5", ")" >>
RgbaQuarter == << "r", "g", "b", "a", "(", "1", ",", "2", ",", "3", ",", "0", ".", "2", "5", ")" >>
\* the 16 bit per channel form #RRRRGGGGBBBB
HexWide == << "#", "1", "1", "1", "1", "2", "2", "2", "2", "3", "3", "3", "3" >>
Named == << "r", "e", "d" >>
RgbShort == << "r", "g", "b", "(", "1", ",", "2", ")" >>

\* ------------------------------------------------------------------------
\* The external collaborators
\* ------------------------------------------------------------------------

\* dom_color.get_dom_color(path): six hexadecimal digits for an image that
\* can be read, an exception otherwise
dom_color_get_dom_color(path) ==
    IF path = ImgA THEN [ok |-> TRUE, s |-> << "6", "4", "9", "6", "c", "8" >>]
    ELSE IF path = ImgB THEN [ok |-> TRUE, s |-> << "c", "d", "0", "0", "1", "0" >>]
    ELSE [ok |-> FALSE, s |-> << >>]

\* ------------------------------------------------------------------------
\* The state
\* ------------------------------------------------------------------------

VARIABLES
    bg_settings,        \* org.mate.background: key -> value
    toplevel_id_list,   \* org.mate.panel toplevel-id-list
    panel_type,         \* per panel, the key "type" of its background settings
    panel_color,        \* per panel, the key "color" of its background settings
    handlers,           \* the ids of the connected "changed" handlers
    next_handler,       \* the id the next connect returns
    update_cb,          \* self.update_cb is not None
    red, green, blue,   \* self.__red, self.__green, self.__blue
    pf,                 \* self.__pf
    event_handler_id,   \* self.__event_handler_id
    toplevel_id,        \* self.__toplevel_id
    th,                 \* the worker threads: their position and locals
    nthreads,           \* the number of worker threads started
    calls,              \* the main-thread calls and notifications so far
    driver,             \* the caller: how many calls it makes, and whether it
                        \* waits for a transition to end: see StartThreads
    gh,                 \* history of each worker: what it read and wrote
    hex,                \* a hexadecimal colour string on its way through the
                        \* parsing and the formatting of change_panel_colors
    xml,                \* dock_xml: the arguments, the file and what was read
    dnd,                \* dock_applet: the drag and drop handlers
    keybinder           \* dock_applet: GlobalKeyBinding and its handler

vars == << bg_settings, toplevel_id_list, panel_type, panel_color, handlers,
           next_handler, update_cb, red, green, blue, pf, event_handler_id,
           toplevel_id, th, nthreads, calls, driver, gh, hex, xml, dnd,
           keybinder >>

\* the state of the other parts of the applet
others == << hex, xml, dnd, keybinder >>

\* a part of the applet that is not in use
Unused == [pc |-> "unused"]

\* nothing but the PanelColorChanger is in use
OnlyColorChanger ==
    hex = Unused /\ xml = Unused /\ dnd = Unused /\ keybinder = Unused

store == << bg_settings, toplevel_id_list, panel_type, panel_color >>

\* a thread that was not started
NoThread ==
    [pc |-> "none", colstr |-> << >>, panel_list |-> << >>, i |-> 0,
     change_list |-> << >>, store_rgba |-> FALSE, store_rgb |-> FALSE,
     po |-> 0, loop |-> 0, item |-> 0]

NoWrite == [n |-> 0, val |-> << >>, loop |-> 0, final |-> FALSE, ntype |-> 0]

NoHistory ==
    [trigger_pf |-> << >>, call |-> 0, id_at_start |-> "", during |-> { },
     path |-> << >>, dom |-> << >>, overlap |-> FALSE, read |-> { },
     orig |-> [p \in Panels |-> << >>],
     wr |-> [p \in Panels |-> NoWrite], cb |-> 0]

Active(t) == t.pc \notin { "none", "done", "raised" }

\* ------------------------------------------------------------------------
\* change_panel_colors: the pure parts
\* ------------------------------------------------------------------------

IndexError == [ok |-> FALSE]

\* lines 193-195 and 202-203: cols, the text between the brackets split at
\* the commas; the hexadecimal form has no such list
Cols(colstr) ==
    IF StartsWith(colstr, << "r", "g", "b", "a" >>)
    THEN Let(Strip(Slice(colstr, 4, 255), { "(", ")" }),
             LAMBDA colstrip : Split(colstrip, ","))
    ELSE IF StartsWith(colstr, << "r", "g", "b" >>)
    THEN Let(Strip(colstr, { "r", "g", "b", "(", ")" }),
             LAMBDA colstrip : Split(colstrip, ","))
    ELSE << >>

\* what the three int() calls, and float() for rgba, of one branch give
Parsed4(store_rgba, store_rgb, pr, pg, pb, o) ==
    IF pr.ok /\ pg.ok /\ pb.ok /\ o.ok
    THEN [ok |-> TRUE, store_rgba |-> store_rgba, store_rgb |-> store_rgb,
          pr |-> pr.v, pg |-> pg.v, pb |-> pb.v, po |-> o.v]
    ELSE [ok |-> FALSE]

\* lines 189-210: a stored colour string, with its list cols, to its encoding
\* flags, its rgb and, for rgba, its opacity; po keeps its previous value for
\* the other forms. ok is FALSE when int(), float() or an index raises.
ParseCols(colstr, cols, po) ==
    IF StartsWith(colstr, << "r", "g", "b", "a" >>)
    THEN IF Len(cols) < 4 THEN IndexError
         ELSE Parsed4(TRUE, FALSE, PyInt(cols[1], 10), PyInt(cols[2], 10),
                      PyInt(cols[3], 10), PyFloat(cols[4]))
    ELSE IF StartsWith(colstr, << "r", "g", "b" >>)
    THEN IF Len(cols) < 3 THEN IndexError
         ELSE Parsed4(FALSE, TRUE, PyInt(cols[1], 10), PyInt(cols[2], 10),
                      PyInt(cols[3], 10), Value(po))
    ELSE Parsed4(FALSE, FALSE, PyInt(Slice(colstr, 1, 3), 16),
                 PyInt(Slice(colstr, 3, 5), 16), PyInt(Slice(colstr, 5, 7), 16),
                 Value(po))

\* lines 215-232: the difference to apply to one component; the step is this
\* difference divided by StepDiv, a float, held here by its numerator
StepOf(p, target) == IF p > target THEN 0 - (p - target) ELSE target - p

\* int(x) of the rational num/den: truncation towards zero
Trunc(num, den) == IF num >= 0 THEN num \div den ELSE 0 - ((0 - num) \div den)

\* The double o + loop * (d / 25) is below the exact value, a whole number,
\* in one case when o and the target are in 0..255: 15 * (205 / 25) is
\* 122.99999999999999. In every other case int() of the double is the
\* truncation of the exact value.
FloatBelow(o, d, loop) == d = 205 /\ loop = 15 /\ o \in 0..5

\* a sum of the original and loop whole differences, without the mask
NewComponentUnmasked(o, d, loop) == o + loop * d

\* a step that is the difference divided by the number of iterations
NewComponentBy24(o, d, loop) ==
    Trunc(o * NumLoops + loop * d, NumLoops) % ByteMod

\* lines 246-251: int(ored + (loop * step)) & 0xff
NewComponent(o, d, loop) ==
    (Trunc(StepDiv * o + loop * d, StepDiv)
        - (IF FloatBelow(o, d, loop) THEN 1 ELSE 0)) % ByteMod

Comma == << "," >>

FmtRgba(r, g, b, po) ==
    << "r", "g", "b", "a", "(" >> \o FmtD(r) \o Comma \o FmtD(g) \o Comma
        \o FmtD(b) \o Comma \o FmtF6(po) \o << ")" >>

FmtRgb(r, g, b) ==
    << "r", "g", "b", "(" >> \o FmtD(r) \o Comma \o FmtD(g) \o Comma
        \o FmtD(b) \o << ")" >>

FmtHex(r, g, b) == << "#" >> \o FmtX2(r) \o FmtX2(g) \o FmtX2(b)

\* lines 252-266: the string an iteration stores
StepString(store_rgba, store_rgb, r, g, b, po) ==
    IF store_rgba THEN FmtRgba(r, g, b, po)
    ELSE IF store_rgb THEN FmtRgb(r, g, b)
    ELSE FmtHex(r, g, b)

\* a final write with the components in the order blue, green, red
FinalStringReversed(store_rgba, r, g, b, po) ==
    IF store_rgba THEN FmtRgba(b, g, r, po) ELSE FmtHex(b, g, r)

\* lines 274-283: the string the final write stores
FinalString(store_rgba, r, g, b, po) ==
    IF store_rgba THEN FmtRgba(r, g, b, po) ELSE FmtHex(r, g, b)

\* ------------------------------------------------------------------------
\* The initial state: the object as __init__ leaves it, over a settings
\* store that holds any of the configurations below
\* ------------------------------------------------------------------------

\* one colour string per panel, in the order p1, p2, p3
Colors(c1, c2, c3) ==
    [p \in Panels |-> IF p = "p1" THEN c1 ELSE IF p = "p2" THEN c2 ELSE c3]

\* the panel lists and the stored colours of the panels
PanelConfigs ==
    { [list |-> << >>, color |-> Colors(HexBlack, HexBlack, HexBlack)],
      [list |-> << "p1" >>, color |-> Colors(HexBlack, HexBlack, HexBlack)],
      [list |-> << "p1" >>, color |-> Colors(RgbWhite, HexBlack, HexBlack)],
      [list |-> << "p1" >>, color |-> Colors(RgbaHalf, HexBlack, HexBlack)],
      [list |-> << "p1" >>, color |-> Colors(HexWide, HexBlack, HexBlack)],
      [list |-> << "p1" >>, color |-> Colors(Named, HexBlack, HexBlack)],
      [list |-> << "p1", "p2" >>, color |-> Colors(HexCaps, RgbaHalf, HexBlack)],
      [list |-> << "p1", "p2" >>, color |-> Colors(RgbaHalf, RgbaQuarter, HexBlack)],
      [list |-> << "p1", "p2" >>, color |-> Colors(RgbSpaced, HexBlack, HexBlack)],
      [list |-> << "p1", "p2" >>, color |-> Colors(HexBlack, RgbShort, HexBlack)],
      [list |-> << "p1", "p2", "p3" >>, color |-> Colors(HexBlack, RgbWhite, RgbaHalf)] }

OverlapConfigs ==
    { [list |-> << "p1" >>, color |-> Colors(HexBlack, HexBlack, HexBlack)] }

LongConfigs ==
    { [list |-> << "p1" >>, color |-> Colors(HexBlack, HexBlack, HexBlack)],
      [list |-> << "p1", "p2" >>, color |-> Colors(HexCaps, RgbaHalf, HexBlack)] }

InitialWallpapers == { ImgA, ImgGone, XmlUpper }

InitialTypes == [p \in Panels |-> IF p = "p1" THEN "none" ELSE IF p = "p2" THEN "image" ELSE "color"]

\* the object as __init__ (lines 69-94) leaves it, over the store of cfg with
\* the wallpaper w
Constructed(cfg, w, cb) ==
    /\ toplevel_id_list = cfg.list
    /\ panel_color = cfg.color
    /\ panel_type = InitialTypes
    /\ bg_settings = [k \in BgKeys |-> IF k = PictureFilename THEN w ELSE Zoom]
    /\ pf = w
    /\ update_cb = cb
    /\ red = 0 /\ green = 0 /\ blue = 0
    /\ handlers = { }
    /\ next_handler = 1
    /\ event_handler_id = 0
    /\ toplevel_id = ""
    /\ th = [w2 \in Threads |-> NoThread]
    /\ nthreads = 0
    /\ calls = << >>
    /\ gh = [w2 \in Threads |-> NoHistory]

\* update_callback is given, or left out over the stores with black panels
Callbacks(cfg) ==
    IF cfg.color = Colors(HexBlack, HexBlack, HexBlack) THEN BOOLEAN ELSE { TRUE }

\* any interleaving of triggers and transitions, over one store
Init ==
    /\ driver = [order |-> "any", calls |-> MaxCalls]
    /\ OnlyColorChanger
    /\ \E cfg \in OverlapConfigs, w \in { ImgA } :
          Constructed(cfg, w, TRUE)

\* a caller that lets a transition end before it triggers the next one, over
\* every store
SeqInit ==
    /\ driver = [order |-> "sequential", calls |-> MaxCalls]
    /\ OnlyColorChanger
    /\ \E cfg \in PanelConfigs, w \in InitialWallpapers :
          \E cb \in Callbacks(cfg) : Constructed(cfg, w, cb)

\* the same caller making one call more, over two stores
LongInit ==
    /\ driver = [order |-> "sequential", calls |-> MaxCalls + 1]
    /\ OnlyColorChanger
    /\ \E cfg \in LongConfigs, w \in { ImgA, ImgGone } :
          \E cb \in Callbacks(cfg) : Constructed(cfg, w, cb)

\* a caller that makes one call more and lets the transitions end before it
\* triggers again, over one store
NotifiedInit ==
    /\ driver = [order |-> "notified", calls |-> MaxCalls + 1]
    /\ OnlyColorChanger
    /\ \E cfg \in OverlapConfigs, w \in { ImgA } :
          Constructed(cfg, w, TRUE)

\* a sequential caller making two calls more, over one store and a wallpaper
\* that cannot be read
RetryInit ==
    /\ driver = [order |-> "sequential", calls |-> MaxCalls + 2]
    /\ OnlyColorChanger
    /\ \E cfg \in OverlapConfigs, w \in { ImgGone } :
          Constructed(cfg, w, TRUE)

\* a caller that makes one call more and triggers while a transition runs,
\* over one store
RacingInit ==
    /\ driver = [order |-> "racing", calls |-> MaxCalls + 1]
    /\ OnlyColorChanger
    /\ \E cfg \in OverlapConfigs, w \in { ImgA } :
          Constructed(cfg, w, TRUE)

\* ------------------------------------------------------------------------
\* The main thread: the public methods and the "changed" notification
\* ------------------------------------------------------------------------

Stretched == << "s", "t", "r", "e", "t", "c", "h", "e", "d" >>

\* the identifiers set_single_panel is called with
PanelIds == { None, "", "p1", "p2" }

\* one main-thread call: the method, and the argument it has if any
Call(op, id, key, value) == [op |-> op, id |-> id, key |-> key, value |-> value]

\* the call is made, and every running transition has seen it made. A
\* "racing" caller triggers at any time and makes its other calls while no
\* transition is running.
Called(c) ==
    /\ Len(calls) < driver.calls
    /\ driver.order = "racing" =>
          \/ c.op = "do_change_panel_color"
          \/ c.op = "settings_changed" /\ handlers # { }
          \/ \A w \in Threads : th[w].pc \in { "none", "done", "raised" }
    /\ calls' = Append(calls, c)
    /\ UNCHANGED others

Seen(w, c) == [gh[w] EXCEPT !.during = @ \cup { c.op }]

SeenByActive(c) == [w \in Threads |-> IF Active(th[w]) THEN Seen(w, c) ELSE gh[w]]

\* lines 144-145, n times: n worker threads are created and started. A
\* "sequential" caller triggers a transition only when none is running and
\* one handler at most is connected; a "notified" caller triggers only when
\* none is running, with any number of handlers connected; any other caller
\* triggers at any time.
StartThreads(n, new_pf, c) ==
    LET new == (nthreads + 1)..(nthreads + n)
        over == n > 1 \/ \E w \in Threads : Active(th[w])
    IN  /\ nthreads + n <= MaxWorkers
        /\ driver.order = "sequential" => ~over
        /\ driver.order = "notified" => ~\E w \in Threads : Active(th[w])
        /\ nthreads' = nthreads + n
        /\ th' = [w \in Threads |->
                    IF w \in new THEN [NoThread EXCEPT !.pc = "get_dom_color"]
                    ELSE th[w]]
        /\ gh' = [w \in Threads |->
                    IF w \in new
                    THEN [NoHistory EXCEPT !.trigger_pf = new_pf,
                                           !.call = Len(calls) + 1,
                                           !.id_at_start = toplevel_id,
                                           !.overlap = over]
                    ELSE IF Active(th[w]) THEN [Seen(w, c) EXCEPT !.overlap = TRUE]
                    ELSE gh[w]]

\* the extension compared without .upper()
IsImageFileCaseSensitive(new_pf) ==
    new_pf # << >> /\ SplitExt(new_pf) # << ".", "x", "m", "l" >>

\* lines 140-142: the wallpaper is an image file
IsImageFile(new_pf) == new_pf # << >> /\ Upper(SplitExt(new_pf)) # DotXML

\* a handler that keeps the path of image files only
background_changed_images_only(key, new_pf, n, c) ==
    IF key = PictureFilename
    THEN IF IsImageFile(new_pf)
         THEN pf' = new_pf /\ StartThreads(n, new_pf, c)
         ELSE UNCHANGED << pf, th, nthreads >> /\ gh' = SeenByActive(c)
    ELSE UNCHANGED << pf, th, nthreads >> /\ gh' = SeenByActive(c)

\* a handler that does not look at the key
background_changed_any_key(key, new_pf, n, c) ==
    LET f == IF key = PictureFilename THEN new_pf ELSE bg_settings[PictureFilename]
    IN  /\ pf' = f
        /\ IF IsImageFile(f)
           THEN StartThreads(n, f, c)
           ELSE UNCHANGED << th, nthreads >> /\ gh' = SeenByActive(c)

\* lines 131-145, called n times in a row with the same key; new_pf is what
\* get_string("picture-filename") returns
background_changed(key, new_pf, n, c) ==
    IF key = PictureFilename
    THEN /\ pf' = new_pf
         /\ IF IsImageFile(new_pf)
            THEN StartThreads(n, new_pf, c)
            ELSE UNCHANGED << th, nthreads >> /\ gh' = SeenByActive(c)
    ELSE UNCHANGED << pf, th, nthreads >> /\ gh' = SeenByActive(c)

\* lines 96-103
enable_color_change ==
    LET c == Call("enable_color_change", "", "", << >>)
    IN  /\ Called(c)
        /\ handlers' = handlers \cup { next_handler }
        /\ event_handler_id' = next_handler
        /\ next_handler' = next_handler + 1
        /\ gh' = SeenByActive(c)
        /\ UNCHANGED << store, update_cb, red, green, blue, pf, toplevel_id, th,
                        nthreads, driver >>

\* a disable that also stops the worker threads where they are
disable_color_change_cancelling ==
    LET c == Call("disable_color_change", "", "", << >>)
    IN  /\ Called(c)
        /\ handlers' = handlers \ { event_handler_id }
        /\ gh' = SeenByActive(c)
        /\ th' = [w \in Threads |->
                    IF Active(th[w]) THEN [th[w] EXCEPT !.pc = "raised"] ELSE th[w]]
        /\ UNCHANGED << store, next_handler, update_cb, red, green, blue, pf,
                        event_handler_id, toplevel_id, nthreads, driver >>

\* lines 105-110; disconnecting an id that is not connected changes nothing
disable_color_change ==
    LET c == Call("disable_color_change", "", "", << >>)
    IN  /\ Called(c)
        /\ handlers' = handlers \ { event_handler_id }
        /\ gh' = SeenByActive(c)
        /\ UNCHANGED << store, next_handler, update_cb, red, green, blue, pf,
                        event_handler_id, toplevel_id, th, nthreads, driver >>

\* a manual trigger that does nothing when the stored path is the one last
\* observed
do_change_panel_color_if_changed ==
    LET c == Call("do_change_panel_color", "", "", << >>)
    IN  /\ Called(c)
        /\ IF bg_settings[PictureFilename] # pf
           THEN background_changed(PictureFilename, bg_settings[PictureFilename], 1, c)
           ELSE UNCHANGED << pf, th, nthreads >> /\ gh' = SeenByActive(c)
        /\ UNCHANGED << store, handlers, next_handler, update_cb, red, green,
                        blue, event_handler_id, toplevel_id, driver >>

\* lines 112-118
do_change_panel_color ==
    LET c == Call("do_change_panel_color", "", "", << >>)
    IN  /\ Called(c)
        /\ background_changed(PictureFilename, bg_settings[PictureFilename], 1, c)
        /\ UNCHANGED << store, handlers, next_handler, update_cb, red, green,
                        blue, event_handler_id, toplevel_id, driver >>

\* lines 120-129
set_single_panel(id) ==
    LET c == Call("set_single_panel", id, "", << >>)
    IN  /\ Called(c)
        /\ toplevel_id' = id
        /\ gh' = SeenByActive(c)
        /\ UNCHANGED << store, handlers, next_handler, update_cb, red, green,
                        blue, pf, event_handler_id, th, nthreads, driver >>

\* A key of org.mate.background is given another value; the "changed" signal
\* (lines 102-103) runs background_changed once per connected handler.
settings_changed(key, value) ==
    LET c == Call("settings_changed", "", key, value)
    IN  /\ Called(c)
        /\ value # bg_settings[key]
        /\ bg_settings' = [bg_settings EXCEPT ![key] = value]
        /\ IF handlers # { }
           THEN background_changed(key, value, Cardinality(handlers), c)
           ELSE UNCHANGED << pf, th, nthreads >> /\ gh' = SeenByActive(c)
        /\ UNCHANGED << toplevel_id_list, panel_type, panel_color, handlers,
                        next_handler, update_cb, red, green, blue,
                        event_handler_id, toplevel_id, driver >>

\* lines 289-292
wallpaper_filename == pf

\* lines 294-302
panel_rgb == << red, green, blue >>

\* ------------------------------------------------------------------------
\* The worker thread: change_panel_colors, one settings access per step
\* ------------------------------------------------------------------------

main_state == << bg_settings, toplevel_id_list, handlers, next_handler, update_cb,
                 pf, event_handler_id, toplevel_id, nthreads, calls, driver,
                 others >>

\* an uncaught exception ends the thread
Raise(w) == [th EXCEPT ![w].pc = "raised"]

\* a get_dom_color that catches the extractor's exception and goes on with
\* black
get_dom_color_catching(w) ==
    /\ th[w].pc = "get_dom_color"
    /\ \E r \in { dom_color_get_dom_color(pf) } :
          /\ th' = [th EXCEPT ![w].colstr = IF r.ok THEN r.s
                                            ELSE << "0", "0", "0", "0", "0", "0" >>,
                              ![w].pc = "set_red"]
          /\ gh' = [gh EXCEPT ![w].path = pf, ![w].dom = r.s]
    /\ UNCHANGED << main_state, panel_type, panel_color, red, green, blue >>

\* line 151: colstr = dom_color.get_dom_color(self.__pf)
get_dom_color(w) ==
    /\ th[w].pc = "get_dom_color"
    /\ \E r \in { dom_color_get_dom_color(pf) } :
          /\ th' = IF r.ok
                   THEN [th EXCEPT ![w].colstr = r.s, ![w].pc = "set_red"]
                   ELSE Raise(w)
          /\ gh' = [gh EXCEPT ![w].path = pf, ![w].dom = r.s]
    /\ UNCHANGED << main_state, panel_type, panel_color, red, green, blue >>

\* line 153: self.__red = int(colstr[0:2], 16)
set_red(w) ==
    /\ th[w].pc = "set_red"
    /\ \E v \in { PyInt(Slice(th[w].colstr, 0, 2), 16) } :
          IF v.ok
          THEN red' = v.v /\ th' = [th EXCEPT ![w].pc = "set_green"]
          ELSE red' = red /\ th' = Raise(w)
    /\ UNCHANGED << main_state, panel_type, panel_color, green, blue, gh >>

\* line 154: self.__green = int(colstr[2:4], 16)
set_green(w) ==
    /\ th[w].pc = "set_green"
    /\ \E v \in { PyInt(Slice(th[w].colstr, 2, 4), 16) } :
          IF v.ok
          THEN green' = v.v /\ th' = [th EXCEPT ![w].pc = "set_blue"]
          ELSE green' = green /\ th' = Raise(w)
    /\ UNCHANGED << main_state, panel_type, panel_color, red, blue, gh >>

\* a blue taken from the green digits
set_blue_from_green(w) ==
    /\ th[w].pc = "set_blue"
    /\ \E v \in { PyInt(Slice(th[w].colstr, 2, 4), 16) } :
          IF v.ok
          THEN blue' = v.v /\ th' = [th EXCEPT ![w].pc = "panel_list"]
          ELSE blue' = blue /\ th' = Raise(w)
    /\ UNCHANGED << main_state, panel_type, panel_color, red, green, gh >>

\* line 155: self.__blue = int(colstr[4:6], 16)
set_blue(w) ==
    /\ th[w].pc = "set_blue"
    /\ \E v \in { PyInt(Slice(th[w].colstr, 4, 6), 16) } :
          IF v.ok
          THEN blue' = v.v /\ th' = [th EXCEPT ![w].pc = "panel_list"]
          ELSE blue' = blue /\ th' = Raise(w)
    /\ UNCHANGED << main_state, panel_type, panel_color, red, green, gh >>

\* a worker that returns when the list of panels is empty
get_panel_list_returning(w) ==
    /\ th[w].pc = "panel_list"
    /\ th' = [th EXCEPT ![w].panel_list = toplevel_id_list,
                        ![w].i = 1,
                        ![w].pc = IF toplevel_id_list = << >> THEN "done"
                                  ELSE "for_panel"]
    /\ UNCHANGED << main_state, panel_type, panel_color, red, green, blue, gh >>

\* lines 166-169: the list of panels is read. With no panel in it the two
\* loops below write nothing and the callback is next.
get_panel_list(w) ==
    /\ th[w].pc = "panel_list"
    /\ th' = [th EXCEPT ![w].panel_list = toplevel_id_list,
                        ![w].i = 1,
                        ![w].pc = IF toplevel_id_list = << >> THEN "callback"
                                  ELSE "for_panel"]
    /\ UNCHANGED << main_state, panel_type, panel_color, red, green, blue, gh >>

\* a test that lets every panel pass
DoChangeAlways(id, panel) == TRUE

\* a test that takes None for the empty string
DoChangeNoneIsEmpty(id, panel) == (id \in { "", None }) \/ (id = panel)

\* lines 173-174: do we want to change this panel?
DoChange(id, panel) == (id = "") \/ (id = panel)

\* lines 212-236: the entry of change_list for a panel whose colour is c
ChangeTup(panel, c) ==
    [settings |-> panel, ored |-> c.pr, ogreen |-> c.pg, oblue |-> c.pb,
     step_red |-> StepOf(c.pr, red), step_green |-> StepOf(c.pg, green),
     step_blue |-> StepOf(c.pb, blue)]

\* lines 170-236: one pass of "for panel in panel_list". A panel that is not
\* to be changed is passed over; a colour string that cannot be parsed ends
\* the thread; after the last panel the iterations start, or the callback is
\* next when there is nothing to change.
for_panel(w) ==
    /\ th[w].pc = "for_panel"
    /\ \E panel \in { th[w].panel_list[th[w].i] } :
       \E do_change \in { DoChange(toplevel_id, panel) } :
       \E colstr \in { panel_color[panel] } :
       \E cols \in { IF do_change THEN Cols(colstr) ELSE << >> } :
       \E c \in { IF do_change THEN ParseCols(colstr, cols, th[w].po)
                  ELSE [ok |-> TRUE] } :
       \E list \in { IF do_change /\ c.ok
                     THEN Append(th[w].change_list, ChangeTup(panel, c))
                     ELSE th[w].change_list } :
          /\ th' = IF ~c.ok THEN Raise(w)
                   ELSE [th EXCEPT
                           ![w].change_list = list,
                           ![w].store_rgba = IF do_change THEN c.store_rgba ELSE @,
                           ![w].store_rgb = IF do_change THEN c.store_rgb ELSE @,
                           ![w].po = IF do_change THEN c.po ELSE @,
                           ![w].i = @ + 1,
                           ![w].loop = 1,
                           ![w].item = 1,
                           ![w].pc = IF th[w].i < Len(th[w].panel_list) THEN "for_panel"
                                     ELSE IF list = << >> THEN "callback"
                                     ELSE "set_type"]
          /\ gh' = IF do_change
                   THEN [gh EXCEPT ![w].read = @ \cup { panel },
                                   ![w].orig[panel] = panel_color[panel]]
                   ELSE gh
    /\ UNCHANGED << main_state, panel_type, panel_color, red, green, blue >>

\* lines 241-243: in the first iteration the panel is made a colour panel
set_type(w) ==
    /\ th[w].pc = "set_type"
    /\ \E panel \in { th[w].change_list[th[w].item].settings } :
          /\ panel_type' = [panel_type EXCEPT ![panel] = "color"]
          /\ gh' = [gh EXCEPT ![w].wr[panel].ntype = @ + 1]
    /\ th' = [th EXCEPT ![w].pc = "set_color"]
    /\ UNCHANGED << main_state, panel_color, red, green, blue >>

\* lines 246-266: the string iteration loop stores for change_item
NewColor(t, change_item) ==
    StepString(t.store_rgba, t.store_rgb,
               NewComponent(change_item.ored, change_item.step_red, t.loop),
               NewComponent(change_item.ogreen, change_item.step_green, t.loop),
               NewComponent(change_item.oblue, change_item.step_blue, t.loop),
               t.po)

\* an iteration loop that ends one iteration early
set_color_one_short(w) ==
    /\ th[w].pc = "set_color"
    /\ \E t \in { th[w] } :
       \E change_item \in { t.change_list[t.item] } :
       \E s \in { NewColor(t, change_item) } :
          /\ panel_color' = [panel_color EXCEPT ![change_item.settings] = s]
          /\ gh' = [gh EXCEPT ![w].wr[change_item.settings] =
                       [@ EXCEPT !.n = @ + 1, !.val = s, !.loop = t.loop]]
          /\ th' = IF t.item < Len(t.change_list)
                   THEN [th EXCEPT ![w].item = @ + 1,
                                   ![w].pc = IF t.loop = 1 THEN "set_type" ELSE "set_color"]
                   ELSE IF t.loop < NumLoops - 1
                   THEN [th EXCEPT ![w].item = 1, ![w].loop = @ + 1,
                                   ![w].pc = IF t.loop = 1 THEN "set_color" ELSE @]
                   ELSE [th EXCEPT ![w].item = 1, ![w].pc = "final"]
    /\ UNCHANGED << main_state, panel_type, red, green, blue >>

\* an iteration that sets the type of the panel whatever loop is
set_color_then_type(w) ==
    /\ th[w].pc = "set_color"
    /\ \E t \in { th[w] } :
       \E change_item \in { t.change_list[t.item] } :
       \E s \in { NewColor(t, change_item) } :
          /\ panel_color' = [panel_color EXCEPT ![change_item.settings] = s]
          /\ gh' = [gh EXCEPT ![w].wr[change_item.settings] =
                       [@ EXCEPT !.n = @ + 1, !.val = s, !.loop = t.loop]]
          /\ th' = IF t.item < Len(t.change_list)
                   THEN [th EXCEPT ![w].item = @ + 1, ![w].pc = "set_type"]
                   ELSE IF t.loop < NumLoops
                   THEN [th EXCEPT ![w].item = 1, ![w].loop = @ + 1,
                                   ![w].pc = "set_type"]
                   ELSE [th EXCEPT ![w].item = 1, ![w].pc = "final"]
    /\ UNCHANGED << main_state, panel_type, red, green, blue >>

\* lines 245-269: the colour of one panel for this iteration; after the last
\* panel of an iteration the thread sleeps and the next iteration starts
set_color(w) ==
    /\ th[w].pc = "set_color"
    /\ \E t \in { th[w] } :
       \E change_item \in { t.change_list[t.item] } :
       \E s \in { NewColor(t, change_item) } :
          /\ panel_color' = [panel_color EXCEPT ![change_item.settings] = s]
          /\ gh' = [gh EXCEPT ![w].wr[change_item.settings] =
                       [@ EXCEPT !.n = @ + 1, !.val = s, !.loop = t.loop]]
          /\ th' = IF t.item < Len(t.change_list)
                   THEN [th EXCEPT ![w].item = @ + 1,
                                   ![w].pc = IF t.loop = 1 THEN "set_type" ELSE "set_color"]
                   ELSE IF t.loop < NumLoops
                   THEN [th EXCEPT ![w].item = 1, ![w].loop = @ + 1,
                                   ![w].pc = IF t.loop = 1 THEN "set_color" ELSE @]
                   ELSE [th EXCEPT ![w].item = 1, ![w].pc = "final"]
    /\ UNCHANGED << main_state, panel_type, red, green, blue >>

\* lines 273-283: the final colour of one panel
set_final_color(w) ==
    /\ th[w].pc = "final"
    /\ \E t \in { th[w] } :
       \E panel \in { t.change_list[t.item].settings } :
       \E s \in { FinalString(t.store_rgba, red, green, blue, t.po) } :
          /\ panel_color' = [panel_color EXCEPT ![panel] = s]
          /\ gh' = [gh EXCEPT ![w].wr[panel] =
                       [@ EXCEPT !.n = @ + 1, !.val = s, !.final = TRUE]]
          /\ th' = IF t.item < Len(t.change_list)
                   THEN [th EXCEPT ![w].item = @ + 1]
                   ELSE [th EXCEPT ![w].pc = "callback"]
    /\ UNCHANGED << main_state, panel_type, red, green, blue >>

\* a callback step that does not test update_cb
call_update_cb_untested(w) ==
    /\ th[w].pc = "callback"
    /\ th' = [th EXCEPT ![w].pc = "done"]
    /\ gh' = [gh EXCEPT ![w].cb = @ + 1]
    /\ UNCHANGED << main_state, panel_type, panel_color, red, green, blue >>

\* lines 286-287: the callback, when there is one
call_update_cb(w) ==
    /\ th[w].pc = "callback"
    /\ th' = [th EXCEPT ![w].pc = "done"]
    /\ gh' = [gh EXCEPT ![w].cb = IF update_cb THEN @ + 1 ELSE @]
    /\ UNCHANGED << main_state, panel_type, panel_color, red, green, blue >>

change_panel_colors(w) ==
    \/ get_dom_color(w)
    \/ set_red(w)
    \/ set_green(w)
    \/ set_blue(w)
    \/ get_panel_list(w)
    \/ for_panel(w)
    \/ set_type(w)
    \/ set_color(w)
    \/ set_final_color(w)
    \/ call_update_cb(w)

Next ==
    \/ enable_color_change
    \/ disable_color_change
    \/ do_change_panel_color
    \/ \E id \in PanelIds : set_single_panel(id)
    \/ \E key \in BgKeys, value \in Wallpapers \cup { Zoom, Stretched } :
          /\ (key = PictureFilename) = (value \in Wallpapers)
          /\ settings_changed(key, value)
    \/ \E w \in Threads : change_panel_colors(w)

Spec == Init /\ [][Next]_vars

SeqSpec == SeqInit /\ [][Next]_vars

LongSpec == LongInit /\ [][Next]_vars

NotifiedSpec == NotifiedInit /\ [][Next]_vars

RetrySpec == RetryInit /\ [][Next]_vars

RacingSpec == RacingInit /\ [][Next]_vars

\* ------------------------------------------------------------------------
\* A hexadecimal colour string read as lines 207-210 read it and written as
\* lines 262-266 write it
\* ------------------------------------------------------------------------

\* the variables of the PanelColorChanger
changer == << bg_settings, toplevel_id_list, panel_type, panel_color, handlers,
              next_handler, update_cb, red, green, blue, pf, event_handler_id,
              toplevel_id, th, nthreads, calls, driver, gh >>

\* a PanelColorChanger that is constructed and never called
ChangerAtRest ==
    /\ driver = [order |-> "none", calls |-> 0]
    /\ \E cfg \in OverlapConfigs : Constructed(cfg, ImgA, TRUE)

\* the digits the colour strings are made of
SampleDigits == { "0", "9", "c", "E" }

\* #RRGGBB over the sample digits
HexStrings ==
    { << "#", a, b, c, d, e, f >> :
        a \in SampleDigits, b \in SampleDigits, c \in SampleDigits,
        d \in SampleDigits, e \in SampleDigits, f \in SampleDigits }

HexInit ==
    /\ ChangerAtRest
    /\ \E colstr \in HexStrings :
          hex = [pc |-> "read", colstr |-> colstr, parsed |-> [ok |-> FALSE],
                 out |-> << >>]
    /\ xml = Unused /\ dnd = Unused /\ keybinder = Unused

\* lines 207-210: pr, pg and pb of the string
parse_hex ==
    /\ hex.pc = "read"
    /\ hex' = [hex EXCEPT !.pc = "parsed",
                          !.parsed = ParseCols(hex.colstr, Cols(hex.colstr), 0)]
    /\ UNCHANGED << changer, xml, dnd, keybinder >>

\* lines 262-266: the string of an iteration that leaves pr, pg and pb as
\* they are
format_hex ==
    /\ hex.pc = "parsed"
    /\ hex.parsed.ok
    /\ hex' = [hex EXCEPT !.pc = "written",
                          !.out = StepString(hex.parsed.store_rgba,
                                             hex.parsed.store_rgb, hex.parsed.pr,
                                             hex.parsed.pg, hex.parsed.pb,
                                             hex.parsed.po)]
    /\ UNCHANGED << changer, xml, dnd, keybinder >>

HexNext == parse_hex \/ format_hex

HexSpec == HexInit /\ [][HexNext]_vars

\* ------------------------------------------------------------------------
\* dock_xml: write_xml and read_xml, over a file that holds the elements with
\* their attribute values as ElementTree writes them
\* ------------------------------------------------------------------------

\* "%s" % b for a boolean
PyStr(b) == IF b THEN << "T", "r", "u", "e" >> ELSE << "F", "a", "l", "s", "e" >>

\* the text ElementTree.write puts in the file for one character of an
\* attribute value
EscapeChar(c) ==
    IF c = "&" THEN << "&", "a", "m", "p", ";" >>
    ELSE IF c = "<" THEN << "&", "l", "t", ";" >>
    ELSE IF c = ">" THEN << "&", "g", "t", ";" >>
    ELSE IF c = "\"" THEN << "&", "q", "u", "o", "t", ";" >>
    ELSE IF c = "\n" THEN << "&", "#", "1", "0", ";" >>
    ELSE << c >>

\* an attribute value as ElementTree.write puts it in the file
RECURSIVE EscapeAttrib(_)
EscapeAttrib(s) ==
    IF s = << >> THEN << >> ELSE EscapeChar(Head(s)) \o EscapeAttrib(Tail(s))

\* the character an entity of the file stands for
EntityChar(name) ==
    IF name = << "a", "m", "p" >> THEN "&"
    ELSE IF name = << "l", "t" >> THEN "<"
    ELSE IF name = << "g", "t" >> THEN ">"
    ELSE IF name = << "q", "u", "o", "t" >> THEN "\""
    ELSE "\n"

\* an attribute value of the file as ET.parse gives it, from index i on
RECURSIVE UnescapeAttrib(_, _)
UnescapeAttrib(s, i) ==
    IF i > Len(s) THEN << >>
    ELSE IF s[i] = "&"
    THEN LET j == CHOOSE k \in (i + 1)..Len(s) :
                     s[k] = ";" /\ \A m \in (i + 1)..(k - 1) : s[m] # ";"
         IN  << EntityChar(SubSeq(s, i + 1, j - 1)) >> \o UnescapeAttrib(s, j + 1)
    ELSE << s[i] >> \o UnescapeAttrib(s, i + 1)

\* ET.Element(tag, name=value) with its children appended, as it is in the
\* file
Element(tag, name, value, children) ==
    [tag |-> tag, name |-> name, value |-> EscapeAttrib(value),
     children |-> children]

\* an element without attribute
Parent(tag, children) == [tag |-> tag, name |-> "", value |-> << >>, children |-> children]

\* lines 130-132 and 162-165: one desktop_file element per .desktop file
DesktopFileEls(dfs) ==
    [i \in 1..Len(dfs) |-> Element("desktop_file", "name", dfs[i], << >>)]

\* lines 158-172: the element of one saved config
ConfigEl(config) ==
    Parent("config",
           << Element("config_name", "name", config[1], << >>),
              Element("workspace_name", "workspace", config[2], << >>),
              Parent("pinned_apps", DesktopFileEls(SubSeq(config, 3, Len(config)))) >>)

\* lines 127-194: the root element write_xml builds from its arguments a
Root(a) ==
    Parent("root",
      << Parent("pinned_apps", DesktopFileEls(a.desktop_files)),
         Element("ind_type", "light", FmtD(a.light_ind), << >>),
         Element("show_all", "show_all", PyStr(a.show_all_apps), << >>),
         Element("multi_ind", "show_multi", PyStr(a.multi_ind), << >>),
         Element("use_win_list", "uwl", PyStr(a.use_dock_win_list), << >>),
         Element("win_from_cur_ws_only", "wcw", PyStr(a.win_from_cur_ws_only), << >>),
         Element("panel_change_color", "pcc", PyStr(a.panel_change_color), << >>),
         Element("dock_panel_change_only", "dcc", PyStr(a.dock_panel_change_only), << >>),
         Element("panel_act_list", "pal", PyStr(a.use_panel_act_list), << >>),
         Element("bg_type", "type", FmtD(a.active_icon_bg), << >>),
         Parent("fallback_bar_col",
                [i \in 1..Len(a.fallback_bar_col) |->
                    Element("col", "value", a.fallback_bar_col[i], << >>)]),
         Element("spacing", "spc", FmtD(a.spacing), << >>),
         Element("attention_type", "type", FmtD(a.attention_type), << >>),
         Element("popup_delay", "delay", FmtD(a.popup_delay), << >>),
         Parent("saved_configs",
                [i \in 1..Len(a.saved_configs) |-> ConfigEl(a.saved_configs[i])]),
         Element("pinned_apps_all_workspaces", "paoaws", PyStr(a.pa_on_all_ws), << >>),
         Element("dock_fixed_size", "dfs", FmtD(a.dock_fixed_size), << >>) >>)

\* el.find(tag) is not None
Has(el, tag) == \E i \in 1..Len(el.children) : el.children[i].tag = tag

\* el.find(tag): the first child with the tag
Find(el, tag) ==
    el.children[CHOOSE i \in 1..Len(el.children) :
                   /\ el.children[i].tag = tag
                   /\ \A j \in 1..(i - 1) : el.children[j].tag # tag]

\* el.get(name): the value of the attribute, None (here << None >>, a value
\* no text equals) when the element has none of that name
Get(el, name) == IF el.name = name THEN UnescapeAttrib(el.value, 1) ELSE << None >>

\* [child.get(name) for child in el]
GetAll(el, name) == [i \in 1..Len(el.children) |-> Get(el.children[i], name)]

\* the pattern of lines 251-255: int() of an attribute, a default when the
\* element is missing
ReadInt(root, tag, name, default) ==
    IF ~Has(root, tag) THEN default
    ELSE PyInt(Get(Find(root, tag), name), 10).v

\* the pattern of lines 257-261: an attribute compared with "True"
ReadBool(root, tag, name, default) ==
    IF ~Has(root, tag) THEN default
    ELSE Get(Find(root, tag), name) = PyStr(TRUE)

\* a read_xml that takes the name of a config for its workspace too
ReadConfigNameTwice(config) ==
    << Get(Find(config, "config_name"), "name"),
       Get(Find(config, "config_name"), "name") >>
    \o GetAll(Find(config, "pinned_apps"), "name")

\* lines 334-353: one saved config as read_xml returns it
ReadConfig(config) ==
    << IF ~Has(config, "config_name") THEN << >>
       ELSE Get(Find(config, "config_name"), "name"),
       IF ~Has(config, "workspace_name") THEN << >>
       ELSE Get(Find(config, "workspace_name"), "workspace") >>
    \o (IF ~Has(config, "pinned_apps") THEN << >>
        ELSE GetAll(Find(config, "pinned_apps"), "name"))

Grey == << << "1", "2", "8" >>, << "1", "2", "8" >>, << "1", "2", "8" >> >>

\* lines 241-372: what read_xml returns for the root element of the file
ReadXml(root) ==
    << TRUE,
       IF ~Has(root, "pinned_apps") THEN << >>
       ELSE GetAll(Find(root, "pinned_apps"), "name"),
       ReadInt(root, "ind_type", "light", 0),
       ReadBool(root, "show_all", "show_all", TRUE),
       ReadBool(root, "multi_ind", "show_multi", FALSE),
       ReadBool(root, "use_win_list", "uwl", TRUE),
       ReadBool(root, "win_from_cur_ws_only", "wcw", TRUE),
       ReadBool(root, "panel_change_color", "pcc", FALSE),
       ReadBool(root, "dock_panel_change_only", "dcc", FALSE),
       ReadBool(root, "panel_act_list", "pal", FALSE),
       ReadInt(root, "bg_type", "type", 0),
       IF Has(root, "fallback_bar_col")
          /\ Len(Find(root, "fallback_bar_col").children) = 3
       THEN GetAll(Find(root, "fallback_bar_col"), "value")
       ELSE Grey,
       ReadInt(root, "spacing", "spc", 0),
       ReadInt(root, "attention_type", "type", 0),
       ReadInt(root, "popup_delay", "delay", 1000),
       IF ~Has(root, "saved_configs") THEN << >>
       ELSE [i \in 1..Len(Find(root, "saved_configs").children) |->
                ReadConfig(Find(root, "saved_configs").children[i])],
       ReadBool(root, "pinned_apps_all_workspaces", "paoaws", TRUE),
       ReadInt(root, "dock_fixed_size", "dfs", 0 - 1) >>

\* the names of .desktop files, of configs and of workspaces
PlainName == << "a", ".", "d" >>
MarkupName == << "<", "&", ">", "\"" >>
EntityName == << "&", "a", "m", "p", ";", "\n" >>

\* the arguments write_xml is called with
XmlArgs ==
    { [filename |-> filename, desktop_files |-> dfs, light_ind |-> n,
       show_all_apps |-> b, multi_ind |-> ~b, use_dock_win_list |-> b,
       win_from_cur_ws_only |-> ~b, panel_change_color |-> b,
       dock_panel_change_only |-> ~b, use_panel_act_list |-> b,
       active_icon_bg |-> n + 1, fallback_bar_col |-> col, spacing |-> n + 2,
       attention_type |-> n + 3, popup_delay |-> 100 * n + 4,
       saved_configs |-> configs, pa_on_all_ws |-> ~b,
       dock_fixed_size |-> n - 1] :
        filename \in { "dock.xml", "missing/dock.xml" },
        dfs \in { << >>, << PlainName >>, << MarkupName, EntityName >> },
        n \in { 0, 5 },
        b \in BOOLEAN,
        col \in { Grey, << << "0" >>, << "2", "5", "5" >>, << "7" >> >> },
        configs \in { << >>,
                      << << PlainName, << >> >> >>,
                      << << MarkupName, EntityName, PlainName, MarkupName >>,
                         << << >>, PlainName, EntityName >> >> } }

\* the file does not exist
NoFile == [tag |-> "", name |-> "", value |-> << >>, children |-> << >>]

XmlInit ==
    /\ ChangerAtRest
    /\ \E a \in XmlArgs :
          xml = [pc |-> "write_xml", args |-> a, file |-> NoFile,
                 written |-> FALSE, result |-> << >>]
    /\ hex = Unused /\ dnd = Unused /\ keybinder = Unused

\* lines 48-201: the file is written, unless its directory does not exist
write_xml ==
    /\ xml.pc = "write_xml"
    /\ xml' = IF xml.args.filename = "dock.xml"
              THEN [xml EXCEPT !.pc = "read_xml", !.file = Root(xml.args),
                               !.written = TRUE]
              ELSE [xml EXCEPT !.pc = "read_xml"]
    /\ UNCHANGED << changer, hex, dnd, keybinder >>

\* lines 204-372
read_xml ==
    /\ xml.pc = "read_xml"
    /\ xml' = [xml EXCEPT !.pc = "returned",
                          !.result = IF xml.file = NoFile THEN << FALSE >>
                                     ELSE ReadXml(xml.file)]
    /\ UNCHANGED << changer, hex, dnd, keybinder >>

XmlNext == write_xml \/ read_xml

XmlSpec == XmlInit /\ [][XmlNext]_vars

\* ------------------------------------------------------------------------
\* dock_applet: the drag and drop handlers and the module flag drag_dropped
\* ------------------------------------------------------------------------

MaxDrags == 2
MaxRequests == 2

\* what an external drag carries: the uri of an existing .desktop file, the
\* uri of another file, or no uri at all
DragData == { "desktop", "file", "text" }

\* line 71, and a dock that drags nothing
DndInit ==
    /\ ChangerAtRest
    /\ dnd = [drag_dropped |-> FALSE, dragee |-> FALSE, op |-> 0,
              active |-> FALSE, data |-> "", requests |-> << >>,
              dropped |-> { }, added |-> << >>]
    /\ hex = Unused /\ xml = Unused /\ keybinder = Unused

\* lines 648-651: a drag from another application comes over the applet
drag_enter(data) ==
    /\ ~dnd.active
    /\ dnd.op < MaxDrags
    /\ dnd' = [dnd EXCEPT !.op = @ + 1, !.active = TRUE, !.data = data]
    /\ UNCHANGED << changer, hex, xml, keybinder >>

\* lines 369-395: the drag of an app icon of the dock begins
applet_drag_begin ==
    /\ ~dnd.active
    /\ dnd.op < MaxDrags
    /\ dnd' = [dnd EXCEPT !.op = @ + 1, !.active = TRUE, !.data = "icon",
                          !.dragee = TRUE]
    /\ UNCHANGED << changer, hex, xml, keybinder >>

\* widget.drag_get_data: the data of the current drag is asked for, and
\* drag-data-received will bring it
drag_get_data == Append(dnd.requests, [op |-> dnd.op, data |-> dnd.data])

\* lines 514-548
applet_drag_motion ==
    /\ dnd.active
    /\ dnd.data # "icon"
    /\ IF ~dnd.dragee /\ dnd.data \in { "desktop", "file" }
       THEN /\ Len(dnd.requests) < MaxRequests
            /\ dnd' = [dnd EXCEPT !.requests = drag_get_data]
       ELSE UNCHANGED dnd
    /\ UNCHANGED << changer, hex, xml, keybinder >>

\* lines 413-438: the drop ends the drag
applet_drag_drop ==
    /\ dnd.active
    /\ IF dnd.dragee
       THEN dnd' = [dnd EXCEPT !.dragee = FALSE, !.active = FALSE,
                               !.dropped = @ \cup { dnd.op }]
       ELSE /\ Len(dnd.requests) < MaxRequests
            /\ dnd' = [dnd EXCEPT !.drag_dropped = TRUE,
                                  !.requests = drag_get_data,
                                  !.active = FALSE,
                                  !.dropped = @ \cup { dnd.op }]
    /\ UNCHANGED << changer, hex, xml, keybinder >>

\* lines 493-511: the drag ends away from the applet
applet_drag_end ==
    /\ dnd.active
    /\ dnd' = [dnd EXCEPT !.dragee = FALSE, !.active = FALSE]
    /\ UNCHANGED << changer, hex, xml, keybinder >>

\* lines 441-490: the data asked for first arrives
applet_drag_data_received ==
    /\ dnd.requests # << >>
    /\ \E r \in { Head(dnd.requests) } :
          dnd' = IF r.data = "desktop" /\ dnd.drag_dropped
                 THEN [dnd EXCEPT !.requests = Tail(@),
                                  !.added = Append(@, r.op),
                                  !.drag_dropped = FALSE]
                 ELSE [dnd EXCEPT !.requests = Tail(@)]
    /\ UNCHANGED << changer, hex, xml, keybinder >>

DndNext ==
    \/ \E data \in DragData : drag_enter(data)
    \/ applet_drag_begin
    \/ applet_drag_motion
    \/ applet_drag_drop
    \/ applet_drag_end
    \/ applet_drag_data_received

DndSpec == DndInit /\ [][DndNext]_vars

\* ------------------------------------------------------------------------
\* dock_applet: GlobalKeyBinding, a thread that reads the X events, and
\* applet_shortcut_handler, run by the main loop
\* ------------------------------------------------------------------------

MaxEvents == 3

\* lines 660-662: the [keycode, modifiers] pairs that are grabbed
Shortcuts == << << 10, "Mod4" >>, << 11, "Mod4" >> >>

\* the key events the display delivers: a press or a release of a grabbed
\* key, or of another key
XEvents ==
    { [type |-> t, detail |-> d, modifiers |-> "Mod4"] :
        t \in { "KeyPress", "KeyRelease" }, d \in { 10, 11, 38 } }

\* current_shortcut = None
NoShortcut == << >>

KeysInit ==
    /\ ChangerAtRest
    /\ keybinder = [shortcuts |-> Shortcuts, current_shortcut |-> NoShortcut,
                    pc |-> "next_event", event |-> << >>, events |-> 0,
                    idles |-> << >>, handler |-> "none", press |-> << >>,
                    handled |-> << >>]
    /\ hex = Unused /\ xml = Unused /\ dnd = Unused

\* lines 757-760: the thread takes the next event and forgets the shortcut
run_next_event(event) ==
    /\ keybinder.pc = "next_event"
    /\ keybinder.events < MaxEvents
    /\ \E pair \in { << event.detail, event.modifiers >> } :
          keybinder' =
             [keybinder EXCEPT
                !.events = @ + 1,
                !.current_shortcut = NoShortcut,
                !.event = pair,
                !.pc = IF event.type = "KeyPress"
                          /\ \E i \in 1..Len(keybinder.shortcuts) :
                                keybinder.shortcuts[i] = pair
                       THEN "track" ELSE "next_event"]
    /\ UNCHANGED << changer, hex, xml, dnd >>

\* line 763: self.current_shortcut = [event.detail, modifiers]
run_track ==
    /\ keybinder.pc = "track"
    /\ keybinder' = [keybinder EXCEPT !.current_shortcut = keybinder.event,
                                      !.pc = "idle_add"]
    /\ UNCHANGED << changer, hex, xml, dnd >>

\* line 764: GLib.idle_add(self.idle)
run_idle_add ==
    /\ keybinder.pc = "idle_add"
    /\ keybinder' = [keybinder EXCEPT !.idles = Append(@, keybinder.event),
                                      !.pc = "next_event"]
    /\ UNCHANGED << changer, hex, xml, dnd >>

\* what a run of the handler is recorded as: the press that scheduled it,
\* the shortcut it read, and how it went on
Handled(seen, outcome) ==
    Append(keybinder.handled,
           [press |-> keybinder.press, seen |-> seen, outcome |-> outcome])

\* lines 720-722 and 562: the main loop runs the idle callback, which emits
\* "activate"; the handler tests current_shortcut. When the test fails app_no
\* is not bound and line 565 raises UnboundLocalError.
idle ==
    /\ keybinder.handler = "none"
    /\ keybinder.idles # << >>
    /\ \E seen \in { keybinder.current_shortcut } :
          IF \E i \in 1..Len(keybinder.shortcuts) : keybinder.shortcuts[i] = seen
          THEN keybinder' = [keybinder EXCEPT !.idles = Tail(@),
                                              !.press = Head(keybinder.idles),
                                              !.handler = "index"]
          ELSE keybinder' =
                  [keybinder EXCEPT
                     !.idles = Tail(@),
                     !.handled = Append(@, [press |-> Head(keybinder.idles),
                                            seen |-> seen,
                                            outcome |-> "UnboundLocalError"])]
    /\ UNCHANGED << changer, hex, xml, dnd >>

\* lines 563-577: the handler reads current_shortcut again for its position
\* in the list; index raises ValueError when it is not there
applet_shortcut_handler ==
    /\ keybinder.handler = "index"
    /\ \E seen \in { keybinder.current_shortcut } :
          keybinder' =
             [keybinder EXCEPT
                !.handler = "none",
                !.handled =
                   Handled(seen,
                           IF \E i \in 1..Len(keybinder.shortcuts) :
                                 keybinder.shortcuts[i] = seen
                           THEN "activated" ELSE "ValueError")]
    /\ UNCHANGED << changer, hex, xml, dnd >>

KeysNext ==
    \/ \E event \in XEvents : run_next_event(event)
    \/ run_track
    \/ run_idle_add
    \/ idle
    \/ applet_shortcut_handler

KeysSpec == KeysInit /\ [][KeysNext]_vars

\* ------------------------------------------------------------------------
\* Reading a colour string, for the properties below
\* ------------------------------------------------------------------------

IsDecimal(x) == AllDigits(Strip(x, Whitespace), 10)

\* the text between the opening bracket at index k and the closing bracket
Inner(s, k) == SubSeq(s, k + 1, Len(s) - 1)

\* #RRGGBB
IsHexForm(s) ==
    Len(s) = 7 /\ s[1] = "#" /\ \A i \in 2..7 : IsDigit(s[i], 16)

\* rgb(r,g,b)
IsRgbForm(s) ==
    /\ StartsWith(s, << "r", "g", "b", "(" >>)
    /\ s[Len(s)] = ")"
    /\ LET parts == Split(Inner(s, 4), ",")
       IN  Len(parts) = 3 /\ \A i \in 1..3 : IsDecimal(parts[i])

\* rgba(r,g,b,a)
IsRgbaForm(s) ==
    /\ StartsWith(s, << "r", "g", "b", "a", "(" >>)
    /\ s[Len(s)] = ")"
    /\ LET parts == Split(Inner(s, 5), ",")
       IN  /\ Len(parts) = 4
           /\ \A i \in 1..3 : IsDecimal(parts[i])
           /\ PyFloat(parts[4]).ok

EncodingOf(s) ==
    IF IsHexForm(s) THEN "hex"
    ELSE IF IsRgbForm(s) THEN "rgb"
    ELSE IF IsRgbaForm(s) THEN "rgba"
    ELSE "other"

HexPair(s, i) == 16 * DigitVal(s[i]) + DigitVal(s[i + 1])

DecimalOf(x) == PyInt(x, 10).v

\* the red, green and blue of a string in one of the three forms
RgbOf(s) ==
    IF IsHexForm(s) THEN << HexPair(s, 2), HexPair(s, 4), HexPair(s, 6) >>
    ELSE LET parts == Split(Inner(s, IF IsRgbForm(s) THEN 4 ELSE 5), ",")
         IN  << DecimalOf(parts[1]), DecimalOf(parts[2]), DecimalOf(parts[3]) >>

\* the opacity of a string in the rgba form, in millionths
AlphaOf(s) == PyFloat(Split(Inner(s, 5), ",")[4]).v

\* the dominant colour the extractor gave to worker w
TargetOf(w) ==
    << HexPair(gh[w].dom, 1), HexPair(gh[w].dom, 3), HexPair(gh[w].dom, 5) >>

Done(w) == th[w].pc = "done"

\* the colour writes and type writes worker w made to panel p
ColorWrites(w, p) == gh[w].wr[p].n
TypeWrites(w, p) == gh[w].wr[p].ntype
WroteNothing(w) == \A p \in Panels : ColorWrites(w, p) = 0 /\ TypeWrites(w, p) = 0

\* ------------------------------------------------------------------------
\* The properties
\* ------------------------------------------------------------------------

\* C1: when a transition that no other transition overlapped has run to
\* completion, the last colour it stored for each panel it manages has
\* exactly the red, green and blue of the dominant colour.
C1_FinalColorIsDominant ==
    \A w \in Threads :
        (Done(w) /\ ~gh[w].overlap) =>
            \A p \in gh[w].read :
                /\ gh[w].wr[p].final
                /\ EncodingOf(gh[w].wr[p].val) # "other"
                /\ RgbOf(gh[w].wr[p].val) = TargetOf(w)

\* a completed transition over two panels whose colours were not the target
C1_Witness ==
    \E w \in Threads :
        /\ Done(w) /\ ~gh[w].overlap
        /\ Cardinality(gh[w].read) >= 2
        /\ \A p \in gh[w].read :
              /\ EncodingOf(gh[w].orig[p]) # "other"
              /\ RgbOf(gh[w].orig[p]) # TargetOf(w)

\* C2: in every iteration the string written to a panel has the encoding
\* that the panel's own stored string had when the transition read it.
C2_StepKeepsEncoding ==
    \A w \in Threads : \A p \in gh[w].read :
        (ColorWrites(w, p) > 0 /\ ~gh[w].wr[p].final
            /\ EncodingOf(gh[w].orig[p]) # "other") =>
            EncodingOf(gh[w].wr[p].val) = EncodingOf(gh[w].orig[p])

\* C3: the final write stores the dominant colour in the panel's own
\* original encoding.
C3_FinalKeepsEncoding ==
    \A w \in Threads : \A p \in gh[w].read :
        (gh[w].wr[p].final /\ ~gh[w].overlap
            /\ EncodingOf(gh[w].orig[p]) # "other") =>
            /\ EncodingOf(gh[w].wr[p].val) = EncodingOf(gh[w].orig[p])
            /\ RgbOf(gh[w].wr[p].val) = TargetOf(w)

\* C4: every string written to a panel that was stored as rgba(r,g,b,a)
\* carries that panel's own a.
C4_AlphaKept ==
    \A w \in Threads : \A p \in gh[w].read :
        (ColorWrites(w, p) > 0 /\ IsRgbaForm(gh[w].orig[p])) =>
            /\ IsRgbaForm(gh[w].wr[p].val)
            /\ AlphaOf(gh[w].wr[p].val) = AlphaOf(gh[w].orig[p])

\* a set_single_panel call came before the call that started worker w
SetBefore(w) ==
    \E k \in 1..(gh[w].call - 1) : calls[k].op = "set_single_panel"

\* the restriction was not changed while worker w ran
Unmoved(w) == "set_single_panel" \notin gh[w].during

Listed == { toplevel_id_list[i] : i \in 1..Len(toplevel_id_list) }

\* C5: a transition started after set_single_panel(p), p a panel id, and
\* before any other set_single_panel writes no key of any other panel.
C5_OnlyTheSinglePanel ==
    \A w \in Threads :
        (th[w].pc # "none" /\ gh[w].id_at_start \in Panels /\ Unmoved(w)) =>
            \A q \in Panels \ { gh[w].id_at_start } :
                ColorWrites(w, q) = 0 /\ TypeWrites(w, q) = 0

\* a completed transition restricted to p1 of two listed panels
C5_Witness ==
    \E w \in Threads :
        /\ Done(w) /\ SetBefore(w) /\ Unmoved(w)
        /\ gh[w].id_at_start = "p1"
        /\ { "p1", "p2" } \subseteq Listed
        /\ gh[w].wr["p1"].final

\* C6, as claimed: after set_single_panel(None) or set_single_panel(""), a
\* transition updates every listed panel.
C6_NoneOrEmptySelectsAll ==
    \A w \in Threads :
        (Done(w) /\ SetBefore(w) /\ Unmoved(w)
            /\ gh[w].id_at_start \in { None, "" }) =>
            \A p \in Listed : gh[w].wr[p].final

\* C6, amended: after set_single_panel("") a transition updates every listed
\* panel; after set_single_panel(None) it updates no panel.
C6_EmptySelectsAllNoneSelectsNone ==
    \A w \in Threads :
        (Done(w) /\ SetBefore(w) /\ Unmoved(w)) =>
            /\ gh[w].id_at_start = "" => \A p \in Listed : gh[w].wr[p].final
            /\ gh[w].id_at_start = None => WroteNothing(w)

\* a completed transition over two listed panels after set_single_panel("")
C6_Witness ==
    \E w \in Threads :
        /\ Done(w) /\ SetBefore(w) /\ Unmoved(w)
        /\ gh[w].id_at_start = ""
        /\ Cardinality(Listed) >= 2
        /\ \A p \in Listed : gh[w].wr[p].final

\* a path with a name and the extension .xml in any letter case
HasXmlExtension(s) ==
    LET n == Len(s)
    IN  /\ n >= 5
        /\ s[n - 4] \notin { "/", "." }
        /\ s[n - 3] = "."
        /\ s[n - 2] \in { "x", "X" }
        /\ s[n - 1] \in { "m", "M" }
        /\ s[n] \in { "l", "L" }

\* C7: a picture-filename value that is empty or has the extension .xml in
\* any letter case starts no worker thread, so nothing is written for it.
C7_SkippedStartsNothing ==
    \A w \in Threads :
        th[w].pc # "none" =>
            gh[w].trigger_pf # << >> /\ ~HasXmlExtension(gh[w].trigger_pf)

\* background_changed has read a mixed-case .xml value and started nothing
C7_Witness ==
    /\ Len(calls) = 2
    /\ calls[1].op = "enable_color_change"
    /\ calls[2].op = "settings_changed"
    /\ calls[2].key = PictureFilename
    /\ calls[2].value = XmlMixed
    /\ pf = XmlMixed
    /\ nthreads = 0

\* the extractor was called by worker w and failed
ExtractionFailed(w) ==
    th[w].pc \notin { "none", "get_dom_color" } /\ gh[w].dom = << >>

\* C8: when the extractor fails the transition ends there and has written
\* no 'type' and no 'color' key.
C8_ExtractionFailureWritesNothing ==
    \A w \in Threads :
        ExtractionFailed(w) =>
            /\ th[w].pc = "raised"
            /\ WroteNothing(w)
            /\ th[w].change_list = << >>

\* a transition for a file that cannot be read has ended
C8_Witness ==
    \E w \in Threads :
        ExtractionFailed(w) /\ gh[w].path = ImgGone /\ th[w].pc = "raised"

\* C9: when the stored colour string of a managed panel has none of the
\* three forms, the transition ends in an error and writes nothing.
C9_MalformedRaises ==
    \A w \in Threads :
        (\E p \in gh[w].read : EncodingOf(gh[w].orig[p]) = "other") =>
            th[w].pc = "raised" /\ WroteNothing(w)

\* extraction and parsing succeeded for worker w
Parsed(w) == th[w].pc \in { "set_type", "set_color", "final", "callback" }

\* worker w made all its writes and its callback
Completed(w) ==
    /\ Done(w)
    /\ \A i \in 1..Len(th[w].change_list) :
          LET p == th[w].change_list[i].settings
          IN  gh[w].wr[p].n = NumLoops + 1 /\ gh[w].wr[p].final
    /\ update_cb => gh[w].cb = 1

\* C10: a transition whose extraction and parsing succeeded completes all
\* its iterations, its final writes and its callback, whether or not
\* disable_color_change is called while it runs.
C10_TransitionCompletes ==
    \A w \in Threads : [](Parsed(w) => <>Completed(w))

\* a transition that a notification started has completed although
\* disable_color_change disconnected the handler while it ran
C10_Witness ==
    \E w \in Threads :
        /\ Completed(w)
        /\ calls[gh[w].call].op = "settings_changed"
        /\ "disable_color_change" \in gh[w].during
        /\ handlers = { }
        /\ gh[w].read # { }

\* threads are scheduled: a worker that can take a step takes it
FairLongSpec ==
    LongSpec /\ \A w \in Threads : WF_vars(change_panel_colors(w))

\* ------------------------------------------------------------------------
\* Reading the calls made so far, for the properties below
\* ------------------------------------------------------------------------

\* the enable and disable calls made before call k
Switches(k) ==
    { j \in 1..(k - 1) :
        calls[j].op \in { "enable_color_change", "disable_color_change" } }

\* the last of them: "none" when there was neither
LastSwitch(k) ==
    IF Switches(k) = { } THEN "none"
    ELSE calls[CHOOSE j \in Switches(k) : \A i \in Switches(k) : i <= j].op

\* the number of worker threads call k started
StartedBy(k) ==
    Cardinality({ w \in Threads : th[w].pc # "none" /\ gh[w].call = k })

\* call k is a notification that picture-filename changed to a static image
ImageNotification(k) ==
    /\ calls[k].op = "settings_changed"
    /\ calls[k].key = PictureFilename
    /\ calls[k].value # << >>
    /\ ~HasXmlExtension(calls[k].value)

\* C11: a picture-filename notification with a static-image path starts
\* exactly one worker when the last of the enable and disable calls before
\* it was an enable, and none when it was a disable.
C11_OneWorkerPerNotification ==
    \A k \in 1..Len(calls) :
        ImageNotification(k) =>
            /\ LastSwitch(k) = "enable_color_change" => StartedBy(k) = 1
            /\ LastSwitch(k) = "disable_color_change" => StartedBy(k) = 0

\* the step is the call or notification c
IsCall(c) == calls' = Append(calls, c)

\* a notification for a key other than picture-filename
OtherKeyNotification ==
    \E key \in BgKeys \ { PictureFilename }, value \in { Zoom, Stretched } :
        IsCall(Call("settings_changed", "", key, value))

\* C12: a notification for a key other than picture-filename starts no
\* worker, writes no panel setting and leaves wallpaper_filename() as it was.
C12_OtherKeyChangesNothing ==
    [][OtherKeyNotification =>
          /\ nthreads' = nthreads
          /\ th' = th
          /\ panel_color' = panel_color
          /\ panel_type' = panel_type
          /\ wallpaper_filename' = wallpaper_filename]_vars

\* picture-options has changed while a handler was connected and the stored
\* picture-filename was an image other than the one last observed
C12_Witness ==
    \E k \in 1..Len(calls) :
        /\ calls[k].op = "settings_changed"
        /\ calls[k].key = PictureOptions
        /\ LastSwitch(k) = "enable_color_change"
        /\ handlers # { }
        /\ StartedBy(k) = 0
        /\ IsImageFile(bg_settings[PictureFilename])

\* a path that is not empty and has not the extension .xml
StaticImage(s) == s # << >> /\ ~HasXmlExtension(s)

\* C13: do_change_panel_color() observes the path that is in the settings
\* store and, when it is a static image, starts one worker thread for it,
\* at its first step; the call itself writes no panel setting.
C13_ManualTriggerStartsWorker ==
    [][IsCall(Call("do_change_panel_color", "", "", << >>)) =>
          /\ wallpaper_filename' = bg_settings[PictureFilename]
          /\ panel_color' = panel_color
          /\ panel_type' = panel_type
          /\ IF StaticImage(bg_settings[PictureFilename])
             THEN /\ nthreads' = nthreads + 1
                  /\ th'[nthreads'].pc = "get_dom_color"
                  /\ gh'[nthreads'].trigger_pf = bg_settings[PictureFilename]
                  /\ \A w \in Threads \ { nthreads' } : th'[w] = th[w]
             ELSE nthreads' = nthreads /\ th' = th]_vars

\* a transition that do_change_panel_color() started, with no handler ever
\* connected and for the path observed at construction, has completed on its
\* worker thread
C13_Witness ==
    \E w \in Threads :
        /\ Completed(w)
        /\ calls[gh[w].call].op = "do_change_panel_color"
        /\ \A k \in 1..Len(calls) : calls[k].op # "enable_color_change"
        /\ \A k \in 1..Len(calls) : calls[k].op # "settings_changed"
        /\ gh[w].trigger_pf = ImgA
        /\ gh[w].read # { }

\* C14: a transition invokes the callback once, when it has made the final
\* write of every panel it manages, if a callback is registered, and invokes
\* nothing if none is.
C14_CallbackOnceAfterFinalWrites ==
    \A w \in Threads :
        /\ gh[w].cb <= 1
        /\ gh[w].cb = 1 =>
              /\ update_cb
              /\ Done(w)
              /\ \A p \in gh[w].read : gh[w].wr[p].final
        /\ (Done(w) /\ update_cb) => gh[w].cb = 1
        /\ ~update_cb => gh[w].cb = 0

\* a transition over two panels has made its final writes and its callback
C14_Witness ==
    \E w \in Threads :
        /\ Done(w)
        /\ gh[w].cb = 1
        /\ Cardinality(gh[w].read) >= 2
        /\ \A p \in gh[w].read : gh[w].wr[p].n = NumLoops + 1

\* the last colour write of worker w to panel p was made by iteration k
WrittenBy(w, p, k) ==
    /\ p \in gh[w].read
    /\ ~gh[w].overlap
    /\ EncodingOf(gh[w].orig[p]) # "other"
    /\ ColorWrites(w, p) > 0
    /\ ~gh[w].wr[p].final
    /\ gh[w].wr[p].loop = k

\* C15, as claimed: iteration k writes, for each channel,
\* trunc(original + k * (target - original) / 24) & 0xFF.
C15_StepIsTwentyFourth ==
    \A w \in Threads : \A p \in Panels : \A k \in 1..NumLoops :
        WrittenBy(w, p, k) =>
            \A i \in 1..3 :
                LET o == RgbOf(gh[w].orig[p])[i]
                    t == TargetOf(w)[i]
                IN  RgbOf(gh[w].wr[p].val)[i] =
                        Trunc(NumLoops * o + k * (t - o), NumLoops) % ByteMod

\* C15, amended: iteration k writes, for each channel, the integer part of
\* original + k * (target - original) / 25, & 0xFF, or one less where that
\* sum is a whole number that the floating-point sum falls below.
C15_StepIsTwentyFifth ==
    \A w \in Threads : \A p \in Panels : \A k \in 1..NumLoops :
        WrittenBy(w, p, k) =>
            \A i \in 1..3 :
                LET o == RgbOf(gh[w].orig[p])[i]
                    t == TargetOf(w)[i]
                    e == 25 * o + k * (t - o)
                    v == RgbOf(gh[w].wr[p].val)[i]
                IN  \/ v = Trunc(e, 25) % ByteMod
                    \/ e % 25 = 0 /\ v = (Trunc(e, 25) - 1) % ByteMod

\* iteration 24 has written a colour that is not yet the target
C15_Witness ==
    \E w \in Threads : \E p \in Panels :
        /\ WrittenBy(w, p, NumLoops)
        /\ \A i \in 1..3 : RgbOf(gh[w].wr[p].val)[i] # TargetOf(w)[i]

\* C16: every colour string written, by an iteration or by the final write,
\* has a red, a green and a blue in 0..255.
C16_ChannelsAreBytes ==
    \A w \in Threads : \A p \in Panels :
        ColorWrites(w, p) > 0 =>
            /\ EncodingOf(gh[w].wr[p].val) # "other"
            /\ \A i \in 1..3 : RgbOf(gh[w].wr[p].val)[i] \in 0..(ByteMod - 1)

\* an iteration has written a colour on its way down in red and up in blue
C16_Witness ==
    \E w \in Threads : \E p \in Panels : \E k \in 2..NumLoops :
        /\ WrittenBy(w, p, k)
        /\ RgbOf(gh[w].orig[p])[1] > RgbOf(gh[w].wr[p].val)[1]
        /\ RgbOf(gh[w].wr[p].val)[1] > TargetOf(w)[1]
        /\ RgbOf(gh[w].orig[p])[3] < RgbOf(gh[w].wr[p].val)[3]
        /\ RgbOf(gh[w].wr[p].val)[3] < TargetOf(w)[3]

\* C17: a transition sets the 'type' key of each panel it manages to "color"
\* once, in iteration 1 and before its first colour write to that panel, and
\* sets the 'type' key of no other panel.
C17_TypeSetOnceInFirstIteration ==
    \A w \in Threads : \A p \in Panels :
        /\ TypeWrites(w, p) <= 1
        /\ ColorWrites(w, p) > 0 => TypeWrites(w, p) = 1
        /\ (TypeWrites(w, p) = 1 /\ ColorWrites(w, p) = 0) =>
              th[w].loop = 1 /\ panel_type[p] = "color"
        /\ p \notin gh[w].read => TypeWrites(w, p) = 0

\* a completed transition over two panels, one of which was not a colour
\* panel before
C17_Witness ==
    \E w \in Threads :
        /\ Done(w)
        /\ { "p1", "p2" } \subseteq gh[w].read
        /\ \A p \in gh[w].read :
              /\ TypeWrites(w, p) = 1
              /\ ColorWrites(w, p) = NumLoops + 1
              /\ panel_type[p] = "color"

\* worker w writes a colour to panel p in this step
WritesColor(w, p) == ColorWrites(w, p)' # ColorWrites(w, p)

\* C18: the k-th colour write of a transition to a managed panel is the
\* write of step k, for k = 1..24, and the 25th is the final write; a write
\* of step k finds every other managed panel at step k - 1 or k, the final
\* write finds every other managed panel with all 24 steps written; a
\* finished transition has made the 25 writes to every managed panel.
C18_StepsInOrderThenFinal ==
    [][\A w \in Threads :
          /\ \A p \in Panels :
                WritesColor(w, p) =>
                   /\ p \in gh[w].read
                   /\ ColorWrites(w, p)' = ColorWrites(w, p) + 1
                   /\ ~gh[w].wr[p].final
                   /\ IF gh'[w].wr[p].final
                      THEN /\ ColorWrites(w, p) = NumLoops
                           /\ \A q \in gh[w].read :
                                 ColorWrites(w, q) \in { NumLoops, NumLoops + 1 }
                      ELSE /\ ColorWrites(w, p)' \in 1..NumLoops
                           /\ gh'[w].wr[p].loop = ColorWrites(w, p)'
                           /\ \A q \in gh[w].read :
                                 ColorWrites(w, q)' \in
                                    { ColorWrites(w, p), ColorWrites(w, p)' }
          /\ (Done(w)' /\ ~gh[w].overlap /\ gh[w].read # { }) =>
                \A p \in gh'[w].read :
                   ColorWrites(w, p)' = NumLoops + 1 /\ gh'[w].wr[p].final
    ]_vars

\* the final write has reached one of two managed panels, after the 24 steps
\* of both
C18_Witness ==
    \E w \in Threads : \E p, q \in gh[w].read :
        /\ gh[w].wr[p].final
        /\ ColorWrites(w, p) = NumLoops + 1
        /\ ~gh[w].wr[q].final
        /\ ColorWrites(w, q) = NumLoops
        /\ gh[w].wr[q].loop = NumLoops

\* get_dom_color has returned in worker w: the extractor gave a colour and
\* the three fields were assigned
Extracted(w) ==
    /\ gh[w].dom # << >>
    /\ th[w].pc \notin { "none", "get_dom_color", "set_red", "set_green", "set_blue" }

\* no worker triggered after w has been given a colour by the extractor
LatestColor(w) ==
    \A v \in Threads \ { w } : gh[v].dom # << >> => gh[v].call < gh[w].call

\* C19: panel_rgb() is (0, 0, 0) while the extractor has given no colour,
\* and once get_dom_color has returned in a transition it is the colour the
\* extractor gave to the latest transition that received one (transitions
\* that do not overlap).
C19_PanelRgbIsLastDominantColor ==
    /\ (\A w \in Threads : gh[w].dom = << >>) => panel_rgb = << 0, 0, 0 >>
    /\ \A w \in Threads :
          (Extracted(w) /\ LatestColor(w)) => panel_rgb = TargetOf(w)

\* a second transition has extracted a colour other than the first one's
C19_Witness ==
    \E w, v \in Threads :
        /\ Extracted(w) /\ Extracted(v)
        /\ gh[v].call < gh[w].call
        /\ TargetOf(v) # TargetOf(w)
        /\ panel_rgb = TargetOf(w)
        /\ panel_rgb # << 0, 0, 0 >>

\* this step runs background_changed for the key picture-filename: a manual
\* trigger, or a change of the key with a handler connected
ObservesWallpaper ==
    \E c \in { Call("do_change_panel_color", "", "", << >>) } \cup
             { Call("settings_changed", "", PictureFilename, v) : v \in Wallpapers } :
        /\ IsCall(c)
        /\ c.op = "settings_changed" => handlers # { }

\* C20: wallpaper_filename() is the picture-filename of the settings when the
\* object is constructed; a picture-filename notification or a manual
\* trigger makes it the picture-filename of the settings at that moment,
\* whether or not a transition is started for it, and no other step changes
\* it.
C20_WallpaperFilenameIsLastObserved ==
    /\ wallpaper_filename = bg_settings[PictureFilename]
    /\ [][IF ObservesWallpaper
          THEN wallpaper_filename' = bg_settings'[PictureFilename]
          ELSE wallpaper_filename' = wallpaper_filename]_vars

\* a notification brought a path that is skipped, and it is what
\* wallpaper_filename() returns; no transition was started
C20_Witness ==
    /\ Len(calls) = 2
    /\ calls[1].op = "enable_color_change"
    /\ calls[2].op = "settings_changed"
    /\ calls[2].key = PictureFilename
    /\ ~IsImageFile(calls[2].value)
    /\ wallpaper_filename = calls[2].value
    /\ nthreads = 0

\* worker v ended in an exception of the extractor or of the parsing
Aborted(v) == ExtractionFailed(v) \/ th[v].pc = "raised"

\* worker w was triggered, for a file the extractor can read, after a
\* worker that aborted
Retried(w) ==
    /\ th[w].pc # "none"
    /\ dom_color_get_dom_color(gh[w].trigger_pf).ok
    /\ \E v \in Threads : Aborted(v) /\ gh[v].call < gh[w].call

Ended(w) == th[w].pc \in { "done", "raised" }

\* every panel worker w read holds the dominant colour of w
AtTarget(w) ==
    \A p \in gh[w].read :
        EncodingOf(panel_color[p]) # "other" /\ RgbOf(panel_color[p]) = TargetOf(w)

\* C21: a transition triggered for a readable image after an abort completes
\* and leaves every managed panel at its dominant colour.
C21_RetryCompletes ==
    \A w \in Threads :
        (Retried(w) /\ Ended(w)) => Completed(w) /\ AtTarget(w)

\* worker w has made some of its colour writes to panel p and not all
Writing(w, p) == ColorWrites(w, p) \in 1..NumLoops

\* C24: the colour writes of two transitions to the same panel do not
\* interleave: no two transitions are both part-way through their writes to
\* a panel.
C24_WritesSerialized ==
    \A p \in Panels : \A w, v \in Threads :
        (Writing(w, p) /\ Writing(v, p)) => w = v

\* the target the step deltas of a change_list entry were computed for
DeltaTarget(item) ==
    << item.ored + item.step_red, item.ogreen + item.step_green,
       item.oblue + item.step_blue >>

\* C25: the colour a transition's final write stores for a panel is the
\* target its step deltas for that panel were computed for.
C25_FinalWriteIsDeltaTarget ==
    \A w \in Threads : \A i \in 1..Len(th[w].change_list) :
        LET item == th[w].change_list[i]
        IN  gh[w].wr[item.settings].final =>
               RgbOf(gh[w].wr[item.settings].val) = DeltaTarget(item)

\* C26: a worker gives the extractor the wallpaper path of the notification
\* or manual trigger that started it.
C26_ExtractsOwnPath ==
    \A w \in Threads :
        th[w].pc \notin { "none", "get_dom_color" } => gh[w].path = gh[w].trigger_pf

\* the dominant colour of the file at path, a file the extractor can read
ColorOfPath(path) ==
    LET s == dom_color_get_dom_color(path).s
    IN  << HexPair(s, 1), HexPair(s, 3), HexPair(s, 5) >>

\* every transition that was started has run to its end
AllCompleted == nthreads >= 1 /\ \A v \in Threads : th[v].pc \in { "none", "done" }

\* no transition was triggered after w
LastTriggered(w) ==
    th[w].pc # "none" /\ \A v \in Threads : gh[v].call <= gh[w].call

\* C27: once every started transition has completed, panel_rgb() and the
\* colour of every panel the last transition managed are the dominant colour
\* of the wallpaper the last transition was triggered for.
C27_LastWallpaperWins ==
    \A w \in Threads :
        (AllCompleted /\ LastTriggered(w)) =>
            /\ panel_rgb = ColorOfPath(gh[w].trigger_pf)
            /\ \A p \in gh[w].read :
                  RgbOf(panel_color[p]) = ColorOfPath(gh[w].trigger_pf)

\* the restriction worker w started with selects no panel of the list
SelectsNone(w) == \A p \in Listed : ~DoChange(gh[w].id_at_start, p)

\* C28: a transition that selects no panel, because the list is empty or the
\* restricted id is not in it, writes no setting and does not raise, and when
\* it has ended it has called the callback, if there is one, exactly once.
C28_NoPanelNoWriteOneCallback ==
    \A w \in Threads :
        (Extracted(w) /\ SelectsNone(w) /\ Unmoved(w)) =>
            /\ WroteNothing(w)
            /\ th[w].pc # "raised"
            /\ gh[w].cb = IF Done(w) /\ update_cb THEN 1 ELSE 0

\* a transition over an empty list has ended
C28_Witness ==
    \E w \in Threads :
        /\ Extracted(w) /\ Done(w)
        /\ Listed = { }
        /\ gh[w].cb = 1
        /\ WroteNothing(w)

\* C22: a string #RRGGBB that is parsed and written back is the same string
\* with its letters in lower case.
C22_HexRoundTrip ==
    /\ hex.pc = "parsed" => hex.parsed.ok
    /\ hex.pc = "written" =>
          /\ Upper(hex.out) = Upper(hex.colstr)
          /\ \A i \in 2..Len(hex.out) : \E k \in 1..16 : hex.out[i] = HexDigits[k]

\* a string with an upper-case digit and a pair that starts with 0 has been
\* written back
C22_Witness ==
    /\ hex.pc = "written"
    /\ hex.colstr[2] = "0" /\ hex.colstr[3] = "E" /\ hex.colstr[4] = "c"
    /\ hex.out # hex.colstr
    /\ Len(hex.out) = Len(hex.colstr)

\* what write_xml was given, in the order read_xml returns it
Given(a) ==
    << TRUE, a.desktop_files, a.light_ind, a.show_all_apps, a.multi_ind,
       a.use_dock_win_list, a.win_from_cur_ws_only, a.panel_change_color,
       a.dock_panel_change_only, a.use_panel_act_list, a.active_icon_bg,
       a.fallback_bar_col, a.spacing, a.attention_type, a.popup_delay,
       a.saved_configs, a.pa_on_all_ws, a.dock_fixed_size >>

C29_AddOnlyAfterDrop ==
    \A i \in 1..Len(dnd.added) : dnd.added[i] \in dnd.dropped

\* C30: every run of applet_shortcut_handler reads, as current_shortcut, the
\* press that scheduled it, and so finds the position of the app.
C30_HandlerSeesItsPress ==
    \A i \in 1..Len(keybinder.handled) :
        /\ keybinder.handled[i].seen = keybinder.handled[i].press
        /\ keybinder.handled[i].outcome = "activated"

====
